---- MODULE Spec2Model ----
(***************************************************************************)
(* Model of generate_union_kindle_enja.py: the batch that curates the      *)
(* union dictionary into Kindle dictionary entries.                        *)
(*                                                                         *)
(* Strings are sequences of characters.  An ASCII character is the         *)
(* one-character string itself; a character outside ASCII is written by    *)
(* its code point name ("U+00E9").  Probabilities are integers in units    *)
(* of 1e-7 and shares are integers in units of 1e-3, so that every         *)
(* threshold of the program is an integer.                                 *)
(***************************************************************************)
EXTENDS Integers, Sequences, FiniteSets, TLC

(***************************************************************************)
(* Characters and character classes used by the regular expressions.       *)
(***************************************************************************)
LowerSeq ==
  <<"a","b","c","d","e","f","g","h","i","j","k","l","m",
    "n","o","p","q","r","s","t","u","v","w","x","y","z">>

UpperSeq ==
  <<"A","B","C","D","E","F","G","H","I","J","K","L","M",
    "N","O","P","Q","R","S","T","U","V","W","X","Y","Z">>

Lower == {LowerSeq[i] : i \in 1..26}

Upper == {UpperSeq[i] : i \in 1..26}

Digit == {"0","1","2","3","4","5","6","7","8","9"}

\* ASCII punctuation (\p{P}) and symbols (\p{S}) that occur in the inputs.
PunctAscii == {"-","_","'",",",".",":",";","(",")","[","]","{","}","\\"}

\* U+0060 is the grave accent (an ASCII symbol).
SymbolAscii == {"$","+","U+0060"}

\* U+00E9 is Latin (e acute), U+8A9E is Han, U+0416 is Cyrillic uppercase.
LatinExt == {"U+00E9"}

Han == {"U+8A9E"}

Cyrillic == {"U+0416"}

AsciiPrintable == Lower \cup Upper \cup Digit \cup {" "} \cup PunctAscii \cup SymbolAscii

Latin == Lower \cup Upper \cup LatinExt

\* \w of the regex module: letters of any script, digits and the underscore.
WordChar == Latin \cup Han \cup Cyrillic \cup Digit \cup {"_"}

\* [-_\p{Latin}\d'] : the characters that make up a word for counting and tokens.
LatinTokenChar == Latin \cup Digit \cup {"-","_","'"}

\* [\p{Lu}\p{P}\p{S}\d]
HeadRejectChar == Upper \cup Cyrillic \cup PunctAscii \cup SymbolAscii \cup Digit

(***************************************************************************)
(* String helpers: what the str methods and the regular expressions of     *)
(* the program do, on sequences of characters.                             *)
(***************************************************************************)
HasChar(s, S) == \E i \in 1..Len(s) : s[i] \in S

AllChars(s, S) == \A i \in 1..Len(s) : s[i] \in S

StartsWith(s, p) == Len(s) >= Len(p) /\ SubSeq(s, 1, Len(p)) = p

\* str.strip(): the only whitespace of the inputs is the space.
Strip(s) ==
  IF \A i \in 1..Len(s) : s[i] = " " THEN <<>>
  ELSE LET a == CHOOSE i \in 1..Len(s) : s[i] # " " /\ \A j \in 1..(i-1) : s[j] = " "
           b == CHOOSE i \in 1..Len(s) : s[i] # " " /\ \A j \in (i+1)..Len(s) : s[j] = " "
       IN SubSeq(s, a, b)

\* str.split(sep) for a one-character separator: empty pieces are kept.
RECURSIVE Split(_, _)
Split(s, sep) ==
  IF \A i \in 1..Len(s) : s[i] # sep THEN <<s>>
  ELSE LET k == CHOOSE i \in 1..Len(s) : s[i] = sep /\ \A j \in 1..(i-1) : s[j] # sep
       IN <<SubSeq(s, 1, k - 1)>> \o Split(SubSeq(s, k + 1, Len(s)), sep)

\* ", ".join(...) with an arbitrary separator string.
RECURSIVE Join(_, _)
Join(parts, sep) ==
  IF parts = <<>> THEN <<>>
  ELSE IF Len(parts) = 1 THEN parts[1]
  ELSE parts[1] \o sep \o Join(Tail(parts), sep)

ToLowerChar(c) ==
  IF c \in Upper THEN LowerSeq[CHOOSE i \in 1..26 : UpperSeq[i] = c] ELSE c

ToLower(s) == [i \in 1..Len(s) |-> ToLowerChar(s[i])]

\* Number of maximal runs of characters of S in s.
CountRuns(s, S) ==
  Cardinality({i \in 1..Len(s) : s[i] \in S /\ (i = 1 \/ s[i-1] \notin S)})

\* The maximal runs of characters of S in s, in order.
RECURSIVE Runs(_, _)
Runs(s, S) ==
  IF ~HasChar(s, S) THEN <<>>
  ELSE LET a == CHOOSE i \in 1..Len(s) : s[i] \in S /\ \A j \in 1..(i-1) : s[j] \notin S
           b == CHOOSE i \in a..Len(s) :
                  /\ \A j \in a..i : s[j] \in S
                  /\ (i = Len(s) \/ s[i+1] \notin S)
       IN <<SubSeq(s, a, b)>> \o Runs(SubSeq(s, b + 1, Len(s)), S)

\* regex.sub(r" \[-+\] .*", "", text): cut at the leftmost " [-] " separator.
SepEndAt(s, i) ==
  \* s[i] = " ", s[i+1] = "[", then one or more "-", then "]" and " "
  IF s[i] = " " /\ i + 1 <= Len(s) /\ s[i+1] = "["
  THEN {j \in (i+3)..(Len(s) - 1) :
          /\ s[j] = "]" /\ s[j+1] = " "
          /\ \A k \in (i+2)..(j-1) : s[k] = "-"}
  ELSE {}

CutExample(s) ==
  LET starts == {i \in 1..Len(s) : SepEndAt(s, i) # {}}
  IN IF starts = {} THEN s
     ELSE LET a == CHOOSE i \in starts : \A j \in starts : i <= j
          IN SubSeq(s, 1, a - 1)

\* regex.sub(r"\(.*?\)", "", text) and regex.sub(r"\[.*?\]", "", text):
\* remove every shortest span from an opening to the next closing bracket.
RECURSIVE RemoveSpans(_, _, _)
RemoveSpans(s, open, close) ==
  LET starts == {i \in 1..Len(s) : s[i] = open /\ \E j \in (i+1)..Len(s) : s[j] = close}
  IN IF starts = {} THEN s
     ELSE LET a == CHOOSE i \in starts : \A j \in starts : i <= j
              b == CHOOSE j \in (a+1)..Len(s) :
                     s[j] = close /\ \A k \in (a+1)..(j-1) : s[k] # close
          IN SubSeq(s, 1, a - 1) \o RemoveSpans(SubSeq(s, b + 1, Len(s)), open, close)

\* regex.search(r"\w{20,}", text)
HasLongToken(s) ==
  \E i \in 1..(Len(s) - 19) : \A j \in i..(i + 19) : s[j] \in WordChar

(***************************************************************************)
(* Program constants.                                                      *)
(***************************************************************************)
\* INFLECTIONS: the attribute names per group; pos and kind are what
\* name.split("_", 1) and the suffix rewriting of MakeMainEntry give.
INFLECTIONS ==
  << << [name |-> "noun_plural", pos |-> "noun", kind |-> "plural"] >>,
     << [name |-> "verb_singular", pos |-> "verb", kind |-> "present 3ps"],
        [name |-> "verb_present_participle", pos |-> "verb", kind |-> "present participle"],
        [name |-> "verb_past", pos |-> "verb", kind |-> "past"],
        [name |-> "verb_past_participle", pos |-> "verb", kind |-> "past participle"] >>,
     << [name |-> "adjective_comparative", pos |-> "adjective", kind |-> "comparative"],
        [name |-> "adjective_superlative", pos |-> "adjective", kind |-> "superlative"] >>,
     << [name |-> "adverb_comparative", pos |-> "adverb", kind |-> "comparative"],
        [name |-> "adverb_superlative", pos |-> "adverb", kind |-> "superlative"] >> >>

\* INFLECTIONS flattened in iteration order.
InflAttrs == INFLECTIONS[1] \o INFLECTIONS[2] \o INFLECTIONS[3] \o INFLECTIONS[4]

ARTICLES == { <<"a">>, <<"t","h","e">>, <<"a","n">> }

\* The members of PARTICLES that the inputs use.
PARTICLES == { <<"u","p">>, <<"o","u","t">>, <<"o","f","f">>, <<"i","n">>, <<"o","n">> }

\* "[translation]:"
TranslationMark == <<"[","t","r","a","n","s","l","a","t","i","o","n","]",":">>

\* Label sets: the defaults of main().
best_labels == {"xa"}

vetted_labels == {"wn"}

preferable_labels == {"xa", "wn", "ox", "we"}

trustable_labels == {"xa"}

supplement_labels == {"xs"}

\* Probability thresholds, in units of 1e-7.
DefaultMinProbNormal == 1

DefaultMinProbCapital == 10

DefaultMinProbMulti == 10

DefaultSufficientProb == 100

\* 0.00005: parents below this probability are ignored by IsGoodEntry.
ParentMinProb == 500

\* 0.00001: the probability of a major word.
MajorWordProb == 100

\* A missing optional field (entry.get(...) is None).
NoProb == -1

NoShare == -1

NoFlag == -1

(***************************************************************************)
(* main(): command-line flags to the configuration of the batch.           *)
(* GetCommandFlag gives None for a flag that is not set; args keeps the    *)
(* command line the configuration was read from.                           *)
(***************************************************************************)
FlagOr(v, default) == IF v = NoFlag THEN default ELSE v

main(flags) ==
  [ min_prob_normal |-> FlagOr(flags.min_prob_normal, DefaultMinProbNormal),
    min_prob_capital |-> FlagOr(flags.min_prob_multi, DefaultMinProbCapital),
    min_prob_multi |-> FlagOr(flags.min_prob_capital, DefaultMinProbMulti),
    sufficient_prob |-> FlagOr(flags.sufficient_prob, DefaultSufficientProb),
    shrink |-> flags.shrink,
    args |-> flags ]

(***************************************************************************)
(* Entries.  A raw entry is a record                                       *)
(*   word, probability, share, translation, item, parent, infl,            *)
(*   alternative, phrase, pronunciation                                    *)
(* where infl maps the inflection attribute names the entry has to their   *)
(* comma-separated values, and an item is [pos, label, text].              *)
(***************************************************************************)
\* float(entry.get("probability") or "0")
ProbOf(entry) == IF entry.probability = NoProb THEN 0 ELSE entry.probability

\* entry.get(name) for an inflection attribute; <<>> when missing.
InflValue(entry, name) == IF name \in DOMAIN entry.infl THEN entry.infl[name] ELSE <<>>

IsTranslationText(text) == StartsWith(text, TranslationMark)

\* regex.fullmatch(r"\d+(th)?", word)
IsOrdinal(word) ==
  \/ Len(word) >= 1 /\ AllChars(word, Digit)
  \/ /\ Len(word) >= 3
     /\ AllChars(SubSeq(word, 1, Len(word) - 2), Digit)
     /\ SubSeq(word, Len(word) - 1, Len(word)) = <<"t","h">>

\* regex.search(r"(^| )[\p{Lu}\p{P}\p{S}\d]", word)
HasRejectHead(word) ==
  \E i \in 1..Len(word) : word[i] \in HeadRejectChar /\ (i = 1 \/ word[i-1] = " ")

\* regex.search(r" ", word)
HasSpaceNever(word) == FALSE

HasSpace(word) == HasChar(word, {" "})

(***************************************************************************)
(* IsGoodEntry: the admission rule chain.  The result names the rule that  *)
(* decided (the numbering of the rule list) and the decision; the missing  *)
(* parent record returns None, which the caller reads as a rejection.      *)
(***************************************************************************)
EntryPoses(entry) == {entry.item[i].pos : i \in 1..Len(entry.item)}

EntryLabels(entry) ==
  {entry.item[i].label : i \in {j \in 1..Len(entry.item) : ~IsTranslationText(entry.item[j].text)}}

IsPhrasalVerb(entry, keywords) ==
  /\ "verb" \in EntryPoses(entry)
  /\ Len(entry.word) >= 1 /\ AllChars(entry.word, Lower \cup {" "})
  /\ LET tokens == Split(entry.word, " ")
     IN /\ Len(tokens) >= 2
        /\ tokens[1] \in keywords
        /\ \A i \in 2..Len(tokens) : tokens[i] \in PARTICLES

HasGoodTranslation(entry) ==
  /\ entry.translation # <<>>
  /\ \/ EntryPoses(entry) \cap {"verb", "adjective", "adverb"} # {}
     \/ /\ Len(entry.word) >= 1 /\ AllChars(entry.word, Lower)
        /\ "we" \in EntryLabels(entry)

\* Whether some inflection attribute of the parent entry is exactly the word.
MatchInfl(parent_entry, word) ==
  \E i \in 1..Len(InflAttrs) :
     LET value == InflValue(parent_entry, InflAttrs[i].name)
     IN value # <<>> /\ value = word

\* The loop over one parent's entries: TRUE when an entry of sufficient
\* probability does not record the word as an inflection.
ParentAdmits(parent_entries, word) ==
  \E i \in 1..Len(parent_entries) :
     /\ ~(ProbOf(parent_entries[i]) < ParentMinProb)
     /\ ~MatchInfl(parent_entries[i], word)

RECURSIVE ParentRule(_, _, _)

ParentRuleSkipMissing(parents, word, input_dbm) ==
  IF \E i \in 1..Len(parents) : /\ parents[i] \in DOMAIN input_dbm
                                /\ ParentAdmits(input_dbm[parents[i]], word)
    THEN "admit" ELSE "none"

\* The loop over the parents: "admit", "missing" (return None) or "none".
ParentRule(parents, word, input_dbm) ==
  IF parents = <<>> THEN "none"
  ELSE IF Head(parents) \notin DOMAIN input_dbm THEN "missing"
  ELSE IF ParentAdmits(input_dbm[Head(parents)], word) THEN "admit"
  ELSE ParentRule(Tail(parents), word, input_dbm)

IsGoodEntry(entry, input_dbm, keywords, cfg) ==
  LET word == entry.word
      prob == ProbOf(entry)
      labels == EntryLabels(entry)
      parent == ParentRule(entry.parent, word, input_dbm)
  IN IF (\E i \in 1..Len(word) : word[i] \notin (AsciiPrintable \cup Latin)) \/ IsOrdinal(word)
       THEN [admit |-> FALSE, rule |-> 1]
     ELSE IF word \in keywords
       THEN [admit |-> TRUE, rule |-> 2]
     ELSE IF labels \cap trustable_labels # {}
       THEN [admit |-> TRUE, rule |-> 3]
     ELSE IF \/ HasChar(word, Upper) /\ prob < cfg.min_prob_capital
             \/ HasChar(word, {" "}) /\ prob < cfg.min_prob_multi
             \/ prob < cfg.min_prob_normal
       THEN [admit |-> FALSE, rule |-> 4]
     ELSE IF prob >= cfg.sufficient_prob
       THEN [admit |-> TRUE, rule |-> 5]
     ELSE IF IsPhrasalVerb(entry, keywords)
       THEN [admit |-> TRUE, rule |-> 6]
     ELSE IF HasGoodTranslation(entry)
       THEN [admit |-> TRUE, rule |-> 7]
     ELSE IF parent = "admit"
       THEN [admit |-> TRUE, rule |-> 8]
     ELSE IF parent = "missing"
       THEN [admit |-> FALSE, rule |-> 8]
     ELSE IF HasRejectHead(word) /\ "we" \notin labels
       THEN [admit |-> FALSE, rule |-> 9]
     ELSE IF HasSpace(word)
       THEN [admit |-> FALSE, rule |-> 10]
     ELSE IF Cardinality(labels) = 1
       THEN [admit |-> FALSE, rule |-> 11]
     ELSE [admit |-> TRUE, rule |-> 12]

(***************************************************************************)
(* Text hygiene and the label cost of MakeMainEntry.                       *)
(***************************************************************************)
\* CheckSafeText: only ASCII, Han and kana, and none of \ { } `.
CheckSafeText(text) ==
  AllChars(text, (AsciiPrintable \cup Han) \ {"\\", "{", "}", "U+0060"})

\* math.log(n) in hundredths, for n in 1..30.
LnTable ==
  <<0, 69, 110, 139, 161, 179, 195, 208, 220, 230, 240, 248, 256, 264, 271,
    277, 283, 289, 294, 300, 304, 309, 314, 318, 322, 326, 330, 333, 337, 340>>

Ln100(n) == LnTable[n]

Abs(x) == IF x < 0 THEN 0 - x ELSE x

\* regex.sub(r" \[-+\] .*", "", text).strip()
CleanText(text) == Strip(CutExample(text))

\* The word count of a cleaned text: the non-word runs become one space each.
NumWords(text) ==
  LET runs == CountRuns(text, LatinTokenChar) IN IF runs = 0 THEN 1 ELSE runs

\* Indexes of the items of a label, in source order (label_items[label]).
LabelItems(entry, label) ==
  SelectSeq([i \in 1..Len(entry.item) |-> i], LAMBDA i : entry.item[i].label = label)

\* The qualifying items of a label: not a translation, cleaned text not empty.
Qualifying(entry, label) ==
  SelectSeq(LabelItems(entry, label),
            LAMBDA i : /\ ~IsTranslationText(entry.item[i].text)
                       /\ CleanText(entry.item[i].text) # <<>>)

RECURSIVE SumSeq(_, _)
SumSeq(idx, f) == IF idx = <<>> THEN 0 ELSE f[Head(idx)] + SumSeq(Tail(idx), f)

\* The cost of a main label as the fraction num / den of
\*   (item_cost + 0.5) * (length_cost + 1.0) * quality_cost,
\* with item_cost and length_cost in hundredths and quality_cost in
\* twentieths; den = 0 when the label has no qualifying item (skipped).
LabelCost(entry, label) ==
  LET is_stop == entry.word \in (ARTICLES \cup PARTICLES)
      is_best == label \in best_labels
      is_vetted == ~is_stop /\ label \in vetted_labels
      qual == Qualifying(entry, label)
      num_items == Len(qual)
      penalty == SumSeq(LabelItems(entry, label),
                   [i \in 1..Len(entry.item) |->
                      IF ~is_best /\ ~is_vetted /\ ~CheckSafeText(entry.item[i].text)
                      THEN 1000 ELSE 0])
      length_sum == penalty + SumSeq(qual,
                   [i \in 1..Len(entry.item) |->
                      Abs(Ln100(9) - Ln100(NumWords(CleanText(entry.item[i].text))))])
      item_cost == Abs(Ln100(5) - Ln100(num_items))
      quality_cost == IF is_best THEN 16 ELSE IF is_vetted THEN 20 ELSE 25
  IN IF num_items = 0 THEN [num |-> 0, den |-> 0]
     ELSE [num |-> (item_cost + 50) * (length_sum + 100 * num_items) * quality_cost,
           den |-> num_items]

CostLessFlipped(c, d) == c.num * d.den > d.num * c.den

\* cost < min_cost on two fractions with positive denominators.
CostLess(c, d) == c.num * d.den < d.num * c.den

NoLabel == "None"

\* The loop over main_labels in the iteration order of the set: the first
\* label with a qualifying item is taken, a later one only at a lower cost.
RECURSIVE PickBest(_, _, _, _)
PickBest(order, entry, best_label, min_cost) ==
  IF order = <<>> THEN best_label
  ELSE LET label == Head(order)
           cost == LabelCost(entry, label)
       IN IF cost.den = 0 THEN PickBest(Tail(order), entry, best_label, min_cost)
          ELSE IF min_cost.den = 0 \/ CostLess(cost, min_cost)
            THEN PickBest(Tail(order), entry, label, cost)
          ELSE PickBest(Tail(order), entry, best_label, min_cost)

MainLabels(entry) ==
  {entry.item[i].label : i \in 1..Len(entry.item)} \cap preferable_labels

\* The iteration orders of a set of labels: a set of strings is iterated
\* in hash order, which differs from one process to the next.
SetOrders(S) ==
  {o \in [1..Cardinality(S) -> S] : \A i, j \in 1..Cardinality(S) : i # j => o[i] # o[j]}

\* best_label of MakeMainEntry; order is the iteration order of main_labels.
\* Not defined for an entry without items and without main labels (the
\* program raises IndexError there, see MakeMainEntry).
BestLabel(entry, order) ==
  LET main_labels == MainLabels(entry)
  IN IF Cardinality(main_labels) >= 2
       THEN PickBest(order, entry, NoLabel, [num |-> 0, den |-> 0])
     ELSE IF Cardinality(main_labels) >= 1
       THEN order[1]
     ELSE entry.item[1].label

(***************************************************************************)
(* Duplicate check: tokens and the n-gram precision.                       *)
(***************************************************************************)
\* Tokenizer.Tokenize("en", text, True, True): the lowercased tokens of the
\* text, punctuation dropped.
Tokenize(text) == Runs(ToLower(text), WordChar \cup {"-", "'"})

\* TokenizeForDupCheck: only the Latin part of each token is kept; empty
\* tokens and articles are dropped.
TokenizeForDupCheck(text) ==
  LET tokens == Tokenize(text)
      cleaned == [i \in 1..Len(tokens) |->
                    Strip(SelectSeq(tokens[i], LAMBDA c : c \in LatinTokenChar))]
  IN SelectSeq(cleaned, LAMBDA t : t # <<>> /\ t \notin ARTICLES)

\* The text the duplicate check tokenizes: the example part, the
\* parenthesised and the bracketed spans removed.
DupCheckText(text) ==
  Strip(RemoveSpans(Strip(RemoveSpans(CleanText(text), "(", ")")), "[", "]"))

DupTokens(text) == TokenizeForDupCheck(DupCheckText(text))

NGrams(tokens, n) ==
  [i \in 1..(Len(tokens) - n + 1) |-> SubSeq(tokens, i, i + n - 1)]

\* tkrzw_dict.ComputeNGramPresision(candidate, references, n) as the fraction
\* hits / total: the n-grams of the candidate found among the n-grams of the
\* references, n lowered to the length of a shorter candidate.
ComputeNGramPresision(candidate, references, n) ==
  LET m == IF Len(candidate) < n THEN Len(candidate) ELSE n
      cand == IF m = 0 THEN <<>> ELSE NGrams(candidate, m)
      refs == UNION {{NGrams(references[r], m)[i] :
                        i \in 1..(Len(references[r]) - m + 1)} : r \in 1..Len(references)}
  IN [hits |-> Cardinality({i \in 1..Len(cand) : cand[i] \in refs}),
      total |-> Len(cand)]

\* dup_score >= max_dup_score, with max_dup_score = 0.3
IsDuplicate(score) == score.total > 0 /\ 10 * score.hits >= 3 * score.total

(***************************************************************************)
(* MergeShownItems.  Items are named by their index in entry["item"], so   *)
(* that the same item object occurring twice is visible; aux is the set of *)
(* the items the function marks with is_aux.                               *)
(***************************************************************************)
MinShownItems(shrink) == IF shrink THEN 3 ELSE 5

MidShownItems(shrink) == IF shrink THEN 5 ELSE 6

MaxShownItems(shrink) == IF shrink THEN 8 ELSE 10

TakePrimaryAll(items, shrink) == items

\* The first loop: up to max_shown_items of items.
TakePrimary(items, shrink) ==
  SubSeq(items, 1, IF Len(items) < MaxShownItems(shrink) THEN Len(items)
                   ELSE MaxShownItems(shrink))

\* references: the non-empty token lists of the items taken so far.
References(entry, merged_items) ==
  SelectSeq([k \in 1..Len(merged_items) |-> DupTokens(entry.item[merged_items[k]].text)],
            LAMBDA t : t # <<>>)

AcceptsSupplementUnchecked(entry, i, references) ==
  /\ CheckSafeText(entry.item[i].text)
  /\ (references = <<>> \/ DupTokens(entry.item[i].text) # <<>>)

\* Whether the second loop appends the supplementary item i.
AcceptsSupplement(entry, i, references) ==
  /\ CheckSafeText(entry.item[i].text)
  /\ \/ references = <<>>
     \/ LET candidate == DupTokens(entry.item[i].text)
        IN /\ candidate # <<>>
           /\ ~IsDuplicate(ComputeNGramPresision(candidate, references, 3))

\* The second loop, over the remaining supplementary items.
RECURSIVE MergeSupplements(_, _, _, _, _)
MergeSupplements(entry, sub_items, references, acc, shrink) ==
  IF sub_items = <<>> \/ Len(acc.merged) >= MidShownItems(shrink) THEN acc
  ELSE IF AcceptsSupplement(entry, Head(sub_items), references)
    THEN MergeSupplements(entry, Tail(sub_items), references,
           [merged |-> Append(acc.merged, Head(sub_items)),
            aux |-> acc.aux \cup {Head(sub_items)}], shrink)
  ELSE MergeSupplements(entry, Tail(sub_items), references, acc, shrink)

MergeShownItems(entry, items, sub_items, shrink) ==
  LET merged_items == TakePrimary(items, shrink)
  IN IF Len(merged_items) < MinShownItems(shrink) /\ sub_items # <<>>
       THEN MergeSupplements(entry, sub_items, References(entry, merged_items),
                             [merged |-> merged_items, aux |-> {}], shrink)
     ELSE [merged |-> merged_items, aux |-> {}]

(***************************************************************************)
(* MakeMainEntryParentItem: the glosses of one parent key.                 *)
(***************************************************************************)
ParentMinShareSwapped(word) == IF HasChar(word, Upper) THEN 250 ELSE 500

\* min_share of MakeMainEntryParentItem
ParentMinShare(word) == IF HasChar(word, Upper) THEN 500 ELSE 250

\* The loop over the entries of the parent.  raised is the IndexError of
\* entry["item"][0] on an entry without translations and without items.
RECURSIVE ParentGlosses(_, _)
ParentGlosses(entries, acc) ==
  IF entries = <<>> THEN acc
  ELSE LET entry == Head(entries)
       IN IF entry.share # NoShare /\ entry.share < ParentMinShare(entry.word) THEN acc
          ELSE IF entry.translation = <<>> /\ entry.item = <<>>
            THEN [acc EXCEPT !.raised = TRUE]
          ELSE LET text == IF entry.translation # <<>>
                             THEN Join(SubSeq(entry.translation, 1,
                                         IF Len(entry.translation) < 4
                                         THEN Len(entry.translation) ELSE 4), <<",", " ">>)
                           ELSE CleanText(entry.item[1].text)
               IN ParentGlosses(Tail(entries),
                    IF text # <<>>
                    THEN [acc EXCEPT !.glosses = Append(@, [word |-> entry.word, text |-> text])]
                    ELSE acc)

MakeMainEntryParentItem(parent, input_dbm) ==
  IF parent \notin DOMAIN input_dbm THEN [raised |-> FALSE, glosses |-> <<>>]
  ELSE ParentGlosses(input_dbm[parent], [raised |-> FALSE, glosses |-> <<>>])

\* The loop of MakeMainEntry over the parents, stopped by the first raise.
RECURSIVE ParentItems(_, _, _)
ParentItems(parents, input_dbm, acc) ==
  IF parents = <<>> \/ acc.raised THEN acc
  ELSE LET r == MakeMainEntryParentItem(Head(parents), input_dbm)
       IN ParentItems(Tail(parents), input_dbm,
                      [raised |-> r.raised, glosses |-> acc.glosses \o r.glosses])

(***************************************************************************)
(* MakeMainEntry.                                                          *)
(***************************************************************************)
\* tkrzw_dict.NormalizeWord: the lowercased word.
NormalizeWord(word) == ToLower(word)

Min(a, b) == IF a < b THEN a ELSE b

ItemIndexes(entry) == [i \in 1..Len(entry.item) |-> i]

\* poses: the parts of speech of the first ten items, those of the
\* supplement labels only when there is no other.
ShownPoses(entry) ==
  LET head == 1..Min(Len(entry.item), 10)
      sub_poses == {entry.item[i].pos : i \in {j \in head : entry.item[j].label \in supplement_labels}}
      poses == {entry.item[i].pos : i \in {j \in head : entry.item[j].label \notin supplement_labels}}
  IN IF poses = {} THEN sub_poses ELSE poses

\* infl_groups, flattened: the attributes of INFLECTIONS whose part of
\* speech is shown and whose value is set, unless the word has two capitals.
InflGroups(entry) ==
  IF Cardinality({i \in 1..Len(entry.word) : entry.word[i] \in Upper}) >= 2 THEN <<>>
  ELSE SelectSeq(InflAttrs, LAMBDA a : a.pos \in ShownPoses(entry)
                                      /\ InflValue(entry, a.name) # <<>>)

\* The inflections of a comma-separated value: stripped, the empty dropped.
SplitInflections(value) ==
  LET parts == Split(value, ",")
  IN SelectSeq([i \in 1..Len(parts) |-> Strip(parts[i])], LAMBDA x : x # <<>>)

InflectionOwner(inflections, infl) ==
  IF infl \in DOMAIN inflections THEN inflections[infl] ELSE <<>>

\* The idx:iform elements of the inflection groups of the entry.
RECURSIVE AttachedForms(_, _, _)
AttachedForms(attrs, entry, inflections) ==
  IF attrs = <<>> THEN <<>>
  ELSE LET a == Head(attrs)
           infls == SelectSeq(SplitInflections(InflValue(entry, a.name)),
                              LAMBDA x : InflectionOwner(inflections, x) = entry.word)
       IN [i \in 1..Len(infls) |-> [pos |-> a.pos, kind |-> a.kind, infl |-> infls[i]]]
          \o AttachedForms(Tail(attrs), entry, inflections)

\* The alternatives shown: those that are neither a key nor an inflection.
ShownAlternatives(entry, keys, inflections) ==
  SelectSeq(entry.alternative,
            LAMBDA alt : LET alt_norm == NormalizeWord(alt)
                         IN ~(alt_norm = <<>> \/ (\E k \in 1..Len(keys) : keys[k] = alt_norm)
                              \/ alt_norm \in DOMAIN inflections))

\* The three item lists of MakeMainEntry.
TranItems(entry) ==
  SelectSeq(ItemIndexes(entry), LAMBDA i : IsTranslationText(entry.item[i].text))

PrimaryItems(entry, best_label) ==
  SelectSeq(ItemIndexes(entry), LAMBDA i : /\ ~IsTranslationText(entry.item[i].text)
                                           /\ entry.item[i].label = best_label)

SubItems(entry, best_label) ==
  LET is_major_word == ProbOf(entry) >= MajorWordProb /\ ~HasChar(entry.word, Upper)
  IN SelectSeq(ItemIndexes(entry),
       LAMBDA i : /\ ~IsTranslationText(entry.item[i].text)
                  /\ entry.item[i].label # best_label
                  /\ entry.item[i].label \in MainLabels(entry)
                  /\ is_major_word
                  /\ ~HasLongToken(entry.item[i].text))

\* if not items: items = sub_items; if not items: items = tran_items
FallbackItems(items, sub_items, tran_items) ==
  IF items # <<>> THEN items ELSE IF sub_items # <<>> THEN sub_items ELSE tran_items

\* The result of an entry that raised before anything was written.
RaisedEntry(entry) ==
  [word |-> entry.word, raised |-> TRUE, counted |-> FALSE, rendered |-> FALSE,
   best_label |-> NoLabel, chosen |-> <<>>, aux |-> {}, forms |-> <<>>,
   alternatives |-> <<>>, translations |-> <<>>, phrases |-> <<>>, glosses |-> <<>>]

\* MakeMainEntry on one entry; order is the iteration order of main_labels.
\*   raised:   an exception left the function
\*   counted:  label_counters[best_label] was incremented
\*   rendered: the entry was written (num_words was incremented)
MakeMainEntry(entry, input_dbm, keys, inflections, order, shrink) ==
  IF entry.item = <<>> /\ MainLabels(entry) = {} THEN RaisedEntry(entry)
  ELSE
    LET best_label == BestLabel(entry, order)
        sub_items == SubItems(entry, best_label)
        items == FallbackItems(PrimaryItems(entry, best_label), sub_items, TranItems(entry))
        shown == MergeShownItems(entry, items, sub_items, shrink)
        parents == ParentItems(entry.parent, input_dbm, [raised |-> FALSE, glosses |-> <<>>])
    IN IF items = <<>>
         THEN [RaisedEntry(entry) EXCEPT !.raised = FALSE, !.counted = TRUE,
                                         !.best_label = best_label]
       ELSE [word |-> entry.word,
             raised |-> parents.raised,
             counted |-> TRUE,
             rendered |-> TRUE,
             best_label |-> best_label,
             chosen |-> shown.merged,
             aux |-> shown.aux,
             forms |-> AttachedForms(InflGroups(entry), entry, inflections),
             alternatives |-> ShownAlternatives(entry, keys, inflections),
             translations |-> SubSeq(entry.translation, 1, Min(Len(entry.translation), 6)),
             phrases |-> SelectSeq(entry.phrase, LAMBDA ph : ph.i = "1"),
             glosses |-> parents.glosses]

(***************************************************************************)
(* The state of a run of GenerateUnionEPUBBatch.                           *)
(*   cfg, keywords, input_dbm  the configuration, the keyword list and the *)
(*                             store: key -> sequence of raw entries       *)
(*   pc                        the position of Run                         *)
(*   it                        the position of the loop in progress        *)
(*   words, keys               the result of ListUpWords, the sorted keys  *)
(*   infl_probs, inflections   the maps MakeMain builds before rendering   *)
(*   cursor                    the entry MakeMain renders next             *)
(*   calls                     the calls of the operation under way, with  *)
(*                             their arguments and results                 *)
(*   out                       the entries written to the output           *)
(*   num_words .. label_counters, raised                                   *)
(*   arg                       the entry an operation is applied to        *)
(***************************************************************************)
VARIABLES cfg, keywords, input_dbm, pc, it, words, keys, infl_probs, inflections,
          cursor, calls, out, num_words, num_trans, num_items, num_aux_items,
          label_counters, raised, arg

vars == <<cfg, keywords, input_dbm, pc, it, words, keys, infl_probs, inflections,
          cursor, calls, out, num_words, num_trans, num_items, num_aux_items,
          label_counters, raised, arg>>

(***************************************************************************)
(* Ordering of strings (sorted(...) of Run) by code point.                 *)
(***************************************************************************)
CodeOrder ==
  <<" ", "$", "'", "(", ")", "+", ",", "-", ".">> \o
  <<"0","1","2","3","4","5","6","7","8","9">> \o <<":", ";">> \o UpperSeq \o
  <<"[", "\\", "]", "_", "U+0060">> \o LowerSeq \o <<"{", "}", "U+00E9", "U+0416", "U+8A9E">>

Code(c) == CHOOSE i \in 1..Len(CodeOrder) : CodeOrder[i] = c

RECURSIVE StrLess(_, _)
StrLess(a, b) ==
  IF b = <<>> THEN FALSE
  ELSE IF a = <<>> THEN TRUE
  ELSE IF Code(a[1]) # Code(b[1]) THEN Code(a[1]) < Code(b[1])
  ELSE StrLess(Tail(a), Tail(b))

RECURSIVE Sorted(_)
Sorted(S) ==
  IF S = {} THEN <<>>
  ELSE LET m == CHOOSE x \in S : \A y \in S \ {x} : StrLess(x, y)
       IN <<m>> \o Sorted(S \ {m})

\* The records of the store, in the order the iterator visits them.
StoreKeys(dbm) == Sorted(DOMAIN dbm)

(***************************************************************************)
(* Counters and output of one call of MakeMainEntry.                       *)
(***************************************************************************)
AllLabels == {"xa", "wn", "ox", "we", "xs", "xx", NoLabel}

NumAux(r) == Cardinality({k \in 1..Len(r.chosen) : r.chosen[k] \in r.aux})

\* The effect of a call of MakeMainEntry with result r on the output and on
\* the counters of the batch.
Emit(entry, r) ==
  /\ calls' = Append(calls, [entry |-> entry, result |-> r])
  /\ out' = IF r.rendered THEN Append(out, r) ELSE out
  /\ label_counters' = IF r.counted THEN [label_counters EXCEPT ![r.best_label] = @ + 1]
                       ELSE label_counters
  /\ num_words' = IF r.rendered THEN num_words + 1 ELSE num_words
  /\ num_trans' = IF r.rendered /\ r.translations # <<>> THEN num_trans + 1 ELSE num_trans
  /\ num_items' = num_items + Len(r.chosen)
  /\ num_aux_items' = num_aux_items + NumAux(r)
  /\ raised' = r.raised

(***************************************************************************)
(* Run: ListUpWords, then MakeMain.                                        *)
(***************************************************************************)
\* The loop body of ListUpWords on the entries of one record.
RECURSIVE ListUpEntries(_, _, _, _, _)
ListUpEntries(entries, w, dbm, kw, c) ==
  IF entries = <<>> THEN w
  ELSE LET entry == Head(entries)
           old == IF entry.word \in DOMAIN w THEN w[entry.word] ELSE 0
           new == IF ProbOf(entry) > old THEN ProbOf(entry) ELSE old
       IN ListUpEntries(Tail(entries),
            IF IsGoodEntry(entry, dbm, kw, c).admit
            THEN [x \in DOMAIN w \cup {entry.word} |-> IF x = entry.word THEN new ELSE w[x]]
            ELSE w,
            dbm, kw, c)

ListUpWordsStep ==
  /\ pc = "ListUpWords"
  /\ it <= Len(StoreKeys(input_dbm))
  /\ words' = ListUpEntries(input_dbm[StoreKeys(input_dbm)[it]], words, input_dbm, keywords, cfg)
  /\ it' = it + 1
  /\ UNCHANGED <<cfg, keywords, input_dbm, pc, keys, infl_probs, inflections, cursor, calls,
                 out, num_words, num_trans, num_items, num_aux_items, label_counters,
                 raised, arg>>

\* The end of ListUpWords and the keys of Run.
ListUpWordsDone ==
  /\ pc = "ListUpWords"
  /\ it > Len(StoreKeys(input_dbm))
  /\ keys' = Sorted({NormalizeWord(w) : w \in DOMAIN words})
  /\ pc' = "MakeMainInflections"
  /\ it' = 1
  /\ UNCHANGED <<cfg, keywords, input_dbm, words, infl_probs, inflections, cursor, calls,
                 out, num_words, num_trans, num_items, num_aux_items, label_counters,
                 raised, arg>>

RECURSIVE RecordInflectionsLowest(_, _, _, _)
RecordInflectionsLowest(infls, prob, word, probs) ==
  IF infls = <<>> THEN probs
  ELSE LET infl == Head(infls)
       IN RecordInflectionsLowest(Tail(infls), prob, word,
            IF infl \notin DOMAIN probs \/ prob < probs[infl].prob
            THEN [x \in DOMAIN probs \cup {infl} |->
                    IF x = infl THEN [prob |-> prob, word |-> word] ELSE probs[x]]
            ELSE probs)

\* infl_probs after the inflections of one attribute value of an entry.
RECURSIVE RecordInflections(_, _, _, _)
RecordInflections(infls, prob, word, probs) ==
  IF infls = <<>> THEN probs
  ELSE LET infl == Head(infls)
       IN RecordInflections(Tail(infls), prob, word,
            IF infl \notin DOMAIN probs \/ prob > probs[infl].prob
            THEN [x \in DOMAIN probs \cup {infl} |->
                    IF x = infl THEN [prob |-> prob, word |-> word] ELSE probs[x]]
            ELSE probs)

\* infl_probs after the attributes of one entry.
RECURSIVE RecordEntry(_, _, _)
RecordEntry(attrs, entry, probs) ==
  IF attrs = <<>> THEN probs
  ELSE RecordEntry(Tail(attrs), entry,
         RecordInflections(SplitInflections(InflValue(entry, Head(attrs).name)),
                           entry.probability, entry.word, probs))

\* infl_probs after the entries of one key, up to the first entry without
\* a probability: float(entry["probability"]) raises KeyError there.
RECURSIVE RecordEntries(_, _)
RecordEntries(entries, acc) ==
  IF entries = <<>> THEN acc
  ELSE IF Head(entries).probability = NoProb THEN [acc EXCEPT !.raised = TRUE]
  ELSE RecordEntries(Tail(entries),
         [acc EXCEPT !.probs = RecordEntry(InflAttrs, Head(entries), @)])

\* The entries of a key; none when the store has no record of it.
EntriesOf(dbm, key) == IF key \in DOMAIN dbm THEN dbm[key] ELSE <<>>

\* MakeMain, first loop: one key.
MakeMainInflectionsStep ==
  /\ pc = "MakeMainInflections"
  /\ it <= Len(keys)
  /\ LET r == RecordEntries(EntriesOf(input_dbm, keys[it]), [raised |-> FALSE, probs |-> infl_probs])
     IN /\ infl_probs' = r.probs
        /\ raised' = r.raised
        /\ pc' = IF r.raised THEN "raised" ELSE pc
  /\ it' = it + 1
  /\ UNCHANGED <<cfg, keywords, input_dbm, words, keys, inflections, cursor, calls,
                 out, num_words, num_trans, num_items, num_aux_items, label_counters, arg>>

\* MakeMain, the inflections map: the word of each pair.
InflectionsOf(probs) == [infl \in DOMAIN probs |-> probs[infl].word]

MakeMainInflectionsDone ==
  /\ pc = "MakeMainInflections"
  /\ it > Len(keys)
  /\ inflections' = InflectionsOf(infl_probs)
  /\ pc' = "MakeMain"
  /\ cursor' = [key |-> 1, idx |-> 1]
  /\ UNCHANGED <<cfg, keywords, input_dbm, it, words, keys, infl_probs, calls,
                 out, num_words, num_trans, num_items, num_aux_items, label_counters,
                 raised, arg>>

MainMinShare(word) == IF HasChar(word, Upper) THEN 300 ELSE 200

\* MakeMain, second loop: the entry under the cursor.  An entry whose share
\* is below the minimum ends the loop over the entries of its key.
MakeMainStep ==
  /\ pc = "MakeMain"
  /\ cursor.key <= Len(keys)
  /\ LET entries == EntriesOf(input_dbm, keys[cursor.key])
     IN IF cursor.idx > Len(entries)
          THEN /\ cursor' = [key |-> cursor.key + 1, idx |-> 1]
               /\ UNCHANGED <<calls, out, num_words, num_trans, num_items, num_aux_items,
                              label_counters, raised, pc>>
        ELSE LET entry == entries[cursor.idx]
             IN IF entry.share # NoShare /\ entry.share < MainMinShare(entry.word)
                  THEN /\ cursor' = [key |-> cursor.key + 1, idx |-> 1]
                       /\ UNCHANGED <<calls, out, num_words, num_trans, num_items,
                                      num_aux_items, label_counters, raised, pc>>
                ELSE \E order \in SetOrders(MainLabels(entry)) :
                       LET r == MakeMainEntry(entry, input_dbm, keys, inflections, order,
                                              cfg.shrink)
                       IN /\ Emit(entry, r)
                          /\ pc' = IF r.raised THEN "raised" ELSE pc
                          /\ cursor' = [cursor EXCEPT !.idx = @ + 1]
  /\ UNCHANGED <<cfg, keywords, input_dbm, it, words, keys, infl_probs, inflections, arg>>

\* The end of MakeMain; the rest of Run writes the totals.
MakeMainDone ==
  /\ pc = "MakeMain"
  /\ cursor.key > Len(keys)
  /\ pc' = "done"
  /\ UNCHANGED <<cfg, keywords, input_dbm, it, words, keys, infl_probs, inflections, cursor,
                 calls, out, num_words, num_trans, num_items, num_aux_items, label_counters,
                 raised, arg>>

Next ==
  \/ ListUpWordsStep
  \/ ListUpWordsDone
  \/ MakeMainInflectionsStep
  \/ MakeMainInflectionsDone
  \/ MakeMainStep
  \/ MakeMainDone

(***************************************************************************)
(* Inputs.  Words, keys and texts are written out as character sequences.  *)
(***************************************************************************)
s_run == <<"r", "u", "n">>

s_Run == <<"R", "u", "n">>

s_ran == <<"r", "a", "n">>

s_ran2 == <<"r", "a", "n", "2">>

s_go == <<"g", "o">>

s_the == <<"t", "h", "e">>

\* Item texts.
t_move == <<"m", "o", "v", "e", " ", "f", "a", "s", "t">>

t_dog == <<"f", "a", "s", "t", " ", "d", "o", "g", " ", "r", "u", "n", "s", " ", "h", "o", "m", "e">>

t_dog2 == <<"f", "a", "s", "t", " ", "d", "o", "g", " ", "r", "u", "n", "s", " ", "h", "o", "m", "e", " ", "n", "o", "w">>

t_cat == <<"r", "e", "d", " ", "c", "a", "t">>

t_tran == <<"[", "t", "r", "a", "n", "s", "l", "a", "t", "i", "o", "n", "]", ":", " ", "i", "n", "u">>

t_example == <<" ", "[", "-", "]", " ", "h", "e", " ", "r", "a", "n", " ", "h", "o", "m", "e">>

t_unsafe == <<"c", "a", "f", "U+00E9", " ", "a", "u", " ", "l", "a", "i", "t">>

t_long == <<"p", "n", "e", "u", "m", "o", "n", "o", "u", "l", "t", "r", "a", "m", "i", "c", "r", "o", "s", "c", "o", "p", "i", "c", " ", "d", "u", "s", "t">>

Item(pos, label, text) == [pos |-> pos, label |-> label, text |-> text]

NoInfl == <<>>

PastRan == "verb_past" :> s_ran

PastRanList == "verb_past" :> <<" ", "r", "a", "n", ",", ",", "r", "u", "n", "n", "e", "d">>

Entry(word, probability, share, translation, item, parent, infl) ==
  [word |-> word, probability |-> probability, share |-> share,
   translation |-> translation, item |-> item, parent |-> parent, infl |-> infl,
   alternative |-> << <<"r", "u", "n", "n">>, <<"R", "a", "n", "2">> >>,
   phrase |-> << [i |-> "1", w |-> <<"r", "u", "n", " ", "u", "p">>, x |-> << <<"x">> >>],
                 [i |-> "0", w |-> <<"r", "u", "n", " ", "i", "n">>, x |-> << <<"y">> >>] >>,
   pronunciation |-> <<"r">>]

NoFlags(shrink) ==
  [min_prob_normal |-> NoFlag, min_prob_capital |-> NoFlag, min_prob_multi |-> NoFlag,
   sufficient_prob |-> NoFlag, shrink |-> shrink]

EmptyMap == [x \in {} |-> <<>>]

(***************************************************************************)
(* The stores of the runs: the key "ran2" with at most one entry and the   *)
(* key "run" with the entries "run" and "Run".  0.001 is 10000, 0.01 is    *)
(* 100000.                                                                 *)
(***************************************************************************)
VerbItem == Item("verb", "wn", t_move)

Ran2Entries ==
  {Entry(s_ran2, p, NoShare, <<>>, <<VerbItem>>, par, f) :
     p \in {10000, 100000}, par \in {<<>>, <<s_go>>, <<s_run>>}, f \in {NoInfl, PastRan}}

RunEntries ==
  {Entry(s_run, p, NoShare, tr, its, <<>>, f) :
     p \in {10000, 100000}, tr \in {<<>>, << <<"h", "a", "s", "h", "i", "r", "u">> >>}, its \in {<<>>, <<VerbItem>>},
     f \in {NoInfl, PastRan, PastRanList}}

CapEntries ==
  {Entry(s_Run, p, sh, <<>>, <<VerbItem>>, <<>>, f) :
     p \in {NoProb, 0, 100000}, sh \in {NoShare, 100}, f \in {NoInfl, PastRan}}

\* The store of the given entry lists; a key without entries has no record.
Store(ran2s, runs) ==
  [k \in {x \in {s_ran2} : ran2s # <<>>} \cup {x \in {s_run} : runs # <<>>} |->
     IF k = s_ran2 THEN ran2s ELSE runs]

Stores ==
  {Store(ran2s, runs) :
     ran2s \in {<<>>} \cup {<<e>> : e \in Ran2Entries},
     runs \in {<<>>} \cup {<<e>> : e \in RunEntries} \cup {<<e>> : e \in CapEntries}
              \cup {<<e, c>> : e \in RunEntries, c \in CapEntries}}

ZeroCounters == [l \in AllLabels |-> 0]

\* The state after the construction of the batch, before Run.
Construct ==
  /\ it = 1
  /\ words = EmptyMap
  /\ infl_probs = EmptyMap
  /\ cursor = [key |-> 1, idx |-> 1]
  /\ calls = <<>>
  /\ out = <<>>
  /\ num_words = 0
  /\ num_trans = 0
  /\ num_items = 0
  /\ num_aux_items = 0
  /\ label_counters = ZeroCounters
  /\ raised = FALSE

Init ==
  /\ cfg = main(NoFlags(FALSE))
  /\ keywords = {s_go}
  /\ input_dbm \in Stores
  /\ arg = <<>>
  /\ Construct
  /\ pc = "ListUpWords"
  /\ keys = <<>>
  /\ inflections = EmptyMap

Spec == Init /\ [][Next]_vars

(***************************************************************************)
(* MakeMainEntry on its own: the entry arg is rendered by a run of the     *)
(* batch, and by a second run (another process) on the same input.         *)
(***************************************************************************)
\* Bounds of the inputs.
MaxItems == 3

MaxLong == 11

RunsPerInput == 2

t_nine == <<"o", "n", "e", " ", "t", "w", "o", " ", "t", "h", "r", "e", "e", " ", "f", "o", "u", "r", " ", "f", "i", "v", "e", " ", "s", "i", "x", " ", "s", "e", "v", "e", "n", " ", "e", "i", "g", "h", "t", " ", "n", "i", "n", "e">>

t_twenty == <<"o", "n", "e", " ", "t", "w", "o", " ", "t", "h", "r", "e", "e", " ", "f", "o", "u", "r", " ", "f", "i", "v", "e", " ", "s", "i", "x", " ", "s", "e", "v", "e", "n", " ", "e", "i", "g", "h", "t", " ", "n", "i", "n", "e", " ", "t", "e", "n", " ", "o", "n", "e", " ", "t", "w", "o", " ", "t", "h", "r", "e", "e", " ", "f", "o", "u", "r", " ", "f", "i", "v", "e", " ", "s", "i", "x", " ", "s", "e", "v", "e", "n", " ", "e", "i", "g", "h", "t", " ", "n", "i", "n", "e", " ", "t", "e", "n">>

\* The items the entries are made of.
ItemUniverse ==
  { Item("noun", "wn", t_dog),
    Item("noun", "ox", t_dog2),
    Item("verb", "ox", t_cat),
    Item("noun", "we", t_cat),
    Item("noun", "wn", t_tran),
    Item("noun", "ox", t_example),
    Item("noun", "ox", t_unsafe),
    Item("verb", "xs", t_dog),
    Item("noun", "ox", t_long),
    Item("noun", "we", t_example) }

SeqsUpTo(S, n) == UNION {[1..k -> S] : k \in 0..n}

\* Entries of up to MaxItems items of ItemUniverse, for a major word and
\* for a capitalized word; for an article, of the items of two main labels.
GenericEntries ==
  {Entry(w, 100000, NoShare, <<>>, its, <<>>, PastRan) :
     w \in {s_run, s_Run}, its \in SeqsUpTo(ItemUniverse, MaxItems)}
  \cup
  {Entry(s_the, 100000, NoShare, <<>>, its, <<>>, NoInfl) :
     its \in SeqsUpTo({Item("noun", "wn", t_dog), Item("noun", "ox", t_dog2),
                       Item("verb", "ox", t_cat), Item("noun", "wn", t_tran)}, MaxItems)}

\* Entries of up to MaxLong items: definitions of the vetted label, of which
\* every other may be a distinct definition of another main label.
LongEntries ==
  {Entry(s_run, 100000, NoShare, << <<"h", "a", "s", "h", "i", "r", "u">> >>, its, <<>>, NoInfl) :
     its \in SeqsUpTo({Item("noun", "wn", t_dog), Item("verb", "ox", t_cat)}, MaxLong)}

\* Label "xa" (best): 5 items of 9 words; label "wn" (vetted): 3 items of 20 words.
ScenarioItems(labelA, labelB) ==
  [i \in 1..8 |-> IF i <= 5 THEN Item("noun", labelA, t_nine) ELSE Item("noun", labelB, t_twenty)]

ScenarioEntries ==
  { Entry(s_run, 100000, NoShare, <<>>, ScenarioItems("xa", "wn"), <<>>, NoInfl),
    Entry(s_run, 100000, NoShare, <<>>, ScenarioItems("wn", "xa"), <<>>, NoInfl),
    Entry(s_run, 100000, NoShare, <<>>, ScenarioItems("ox", "we"), <<>>, NoInfl) }

RenderEntries == GenericEntries \cup LongEntries \cup ScenarioEntries

InitEntry ==
  /\ cfg \in {main(NoFlags(shrink)) : shrink \in BOOLEAN}
  /\ keywords = {s_go}
  /\ input_dbm = EmptyMap
  /\ arg \in RenderEntries
  /\ Construct
  /\ pc = "MakeMainEntry"
  /\ keys = <<s_run>>
  /\ inflections = (s_ran :> arg.word)

\* A run of the batch renders the entry.
CallMakeMainEntry ==
  /\ pc = "MakeMainEntry"
  /\ \E order \in SetOrders(MainLabels(arg)) :
       Emit(arg, MakeMainEntry(arg, input_dbm, keys, inflections, order, cfg.shrink))
  /\ pc' = "returned"
  /\ UNCHANGED <<cfg, keywords, input_dbm, it, words, keys, infl_probs, inflections, cursor, arg>>

\* The next run on the same input: a new process, the log of calls kept.
Rerun ==
  /\ pc = "returned"
  /\ Len(calls) < RunsPerInput
  /\ pc' = "MakeMainEntry"
  /\ out' = <<>>
  /\ num_words' = 0
  /\ num_trans' = 0
  /\ num_items' = 0
  /\ num_aux_items' = 0
  /\ label_counters' = ZeroCounters
  /\ raised' = FALSE
  /\ UNCHANGED <<cfg, keywords, input_dbm, it, words, keys, infl_probs, inflections, cursor,
                 calls, arg>>

NextEntry == CallMakeMainEntry \/ Rerun

SpecEntry == InitEntry /\ [][NextEntry]_vars

(***************************************************************************)
(* MakeMainEntryParentItem on its own: the glosses of the parent key "go". *)
(***************************************************************************)
MaxParentEntries == 3

DigitSeq == <<"1","2","3","4","5","6","7","8","9">>

\* The i-th entry of the parent: its word is capitalized or not, its share
\* is missing, 0.1, 0.3 or 0.6, and it has translations, an item or neither.
ParentEntryChoices(i) ==
  {Entry(<<c, DigitSeq[i]>>, 100000, sh, ti[1], ti[2], <<>>, NoInfl) :
     c \in {"p", "P"}, sh \in {NoShare, 100, 300, 600},
     ti \in { << << <<"o", "y", "a">> >>, <<>> >>,
              << <<>>, <<Item("noun", "wn", t_dog)>> >>,
              << <<>>, <<>> >> }}

RECURSIVE ParentLists(_)
ParentLists(n) ==
  IF n = 0 THEN {<<>>}
  ELSE ParentLists(n - 1) \cup
       {Append(l, e) : l \in {x \in ParentLists(n - 1) : Len(x) = n - 1},
                       e \in ParentEntryChoices(n)}

InitParent ==
  /\ cfg = main(NoFlags(FALSE))
  /\ keywords = {s_go}
  /\ \/ input_dbm = EmptyMap
     \/ \E l \in ParentLists(MaxParentEntries) : input_dbm = (s_go :> l)
  /\ arg = s_go
  /\ Construct
  /\ pc = "MakeMainEntryParentItem"
  /\ keys = <<>>
  /\ inflections = EmptyMap

CallMakeMainEntryParentItem ==
  /\ pc = "MakeMainEntryParentItem"
  /\ LET r == MakeMainEntryParentItem(arg, input_dbm)
     IN /\ calls' = Append(calls, [parent |-> arg, result |-> r])
        /\ raised' = r.raised
  /\ pc' = "returned"
  /\ UNCHANGED <<cfg, keywords, input_dbm, it, words, keys, infl_probs, inflections, cursor,
                 out, num_words, num_trans, num_items, num_aux_items, label_counters, arg>>

NextParent == CallMakeMainEntryParentItem

SpecParent == InitParent /\ [][NextParent]_vars

(***************************************************************************)
(* IsGoodEntry on its own.                                                 *)
(***************************************************************************)
AdmitWords ==
  { s_run, s_Run, s_ran, s_go, <<"g", "o", " ", "u", "p">>, <<"g", "o", " ", "r", "u", "n">>, <<"f", "o", "o", " ", "b", "a", "r">>, <<"1", "2", "t", "h">>, <<"U", ".", "S", ".">>,
    <<"U+8A9E">>, <<"-", "r", "a", "n">> }

AdmitItems ==
  { <<>>,
    <<Item("noun", "xx", t_dog)>>,
    <<Item("verb", "xx", t_dog)>>,
    <<Item("noun", "we", t_dog)>>,
    <<Item("noun", "xx", t_dog), Item("noun", "wn", t_cat)>>,
    <<Item("verb", "xa", t_dog)>>,
    <<Item("noun", "xa", t_tran), Item("noun", "xx", t_dog)>> }

\* The records of the parent key "run"; the key "go" has no record.
AdmitStores ==
  { EmptyMap,
    s_run :> <<Entry(s_run, 1000, NoShare, <<>>, <<VerbItem>>, <<>>, PastRan)>>,
    s_run :> <<Entry(s_run, 1000, NoShare, <<>>, <<VerbItem>>, <<>>, PastRanList)>>,
    s_run :> <<Entry(s_run, 10, NoShare, <<>>, <<VerbItem>>, <<>>, NoInfl),
               Entry(s_Run, 1000, NoShare, <<>>, <<VerbItem>>, <<>>, PastRan)>> }

AdmitEntries ==
  {Entry(w, p, NoShare, tr, its, par, NoInfl) :
     w \in AdmitWords, p \in {NoProb, 0, 5, 50, 100},
     tr \in {<<>>, << <<"y", "a", "k", "u">> >>}, its \in AdmitItems,
     par \in {<<>>, <<s_run>>, <<s_go, s_run>>, <<s_run, s_go>>}}

\* The command lines: each threshold flag is absent or given.
AdmitFlags ==
  {[min_prob_normal |-> n, min_prob_capital |-> c, min_prob_multi |-> m,
    sufficient_prob |-> s, shrink |-> FALSE] :
     n \in {NoFlag, 3}, c \in {NoFlag, 60}, m \in {NoFlag, 4}, s \in {NoFlag, 40}}

InitAdmit ==
  /\ cfg \in {main(f) : f \in AdmitFlags}
  /\ keywords = {s_go}
  /\ input_dbm \in AdmitStores
  /\ arg \in AdmitEntries
  /\ Construct
  /\ pc = "IsGoodEntry"
  /\ keys = <<>>
  /\ inflections = EmptyMap

CallIsGoodEntry ==
  /\ pc = "IsGoodEntry"
  /\ calls' = Append(calls, [entry |-> arg, result |-> IsGoodEntry(arg, input_dbm, keywords, cfg)])
  /\ pc' = "returned"
  /\ UNCHANGED <<cfg, keywords, input_dbm, it, words, keys, infl_probs, inflections, cursor,
                 out, num_words, num_trans, num_items, num_aux_items, label_counters,
                 raised, arg>>

NextAdmit == CallIsGoodEntry

SpecAdmit == InitAdmit /\ [][NextAdmit]_vars

(***************************************************************************)
(* Properties.                                                             *)
(***************************************************************************)
Range(f) == {f[i] : i \in DOMAIN f}

\* The calls of MakeMainEntry that wrote their entry.
RenderedCalls == {k \in 1..Len(calls) : calls[k].result.rendered}

\* The items MergeShownItems is given for the call c, and the references
\* it builds from the items of its first loop.
GivenItems(c) ==
  FallbackItems(PrimaryItems(c.entry, c.result.best_label),
                SubItems(c.entry, c.result.best_label), TranItems(c.entry))

FirstLoopCount(c) ==
  Min(Len(GivenItems(c)), IF cfg.shrink THEN 8 ELSE 10)

ReferencesOf(c) == References(c.entry, SubSeq(GivenItems(c), 1, FirstLoopCount(c)))

\* C1: every rendered entry has at least 1 and at most max chosen items,
\* max being 8 when the shrink flag is set and 10 otherwise.
C1_ChosenWithinBounds ==
  \A k \in RenderedCalls :
     /\ Len(calls[k].result.chosen) >= 1
     /\ Len(calls[k].result.chosen) <= (IF cfg.shrink THEN 8 ELSE 10)

\* C1 witness: an entry with more primary items than max was rendered with
\* exactly max items.
C1_Witness ==
  \E k \in RenderedCalls :
     /\ Len(PrimaryItems(calls[k].entry, calls[k].result.best_label))
          > (IF cfg.shrink THEN 8 ELSE 10)
     /\ Len(calls[k].result.chosen) = (IF cfg.shrink THEN 8 ELSE 10)

\* The n-gram precision (n = 3) of the item i against the references of
\* the call c is 0.3 or more.
PrecisionAtLeastThreeTenths(c, i) ==
  LET score == ComputeNGramPresision(DupTokens(c.entry.item[i].text), ReferencesOf(c), 3)
  IN score.total > 0 /\ 10 * score.hits >= 3 * score.total

\* C2: no supplementary item whose n-gram precision against the reference
\* token set is 0.3 or more is among the chosen items of a rendered entry,
\* whether it was appended after the primary items or stands in for them.
C2_NoDuplicateSupplement ==
  \A k \in RenderedCalls :
     \A j \in 1..Len(calls[k].result.chosen) :
        calls[k].result.chosen[j] \in Range(SubItems(calls[k].entry, calls[k].result.best_label))
          => ~PrecisionAtLeastThreeTenths(calls[k], calls[k].result.chosen[j])

\* C2 witness: a supplementary item of precision 0.3 or more was left out
\* although the entry was rendered with fewer than mid items, and another
\* supplementary item was appended.
C2_Witness ==
  \E k \in RenderedCalls :
     /\ calls[k].result.aux # {}
     /\ Len(calls[k].result.chosen) < (IF cfg.shrink THEN 5 ELSE 6)
     /\ \E i \in Range(SubItems(calls[k].entry, calls[k].result.best_label)) :
           /\ i \notin Range(calls[k].result.chosen)
           /\ PrecisionAtLeastThreeTenths(calls[k], i)

\* C3: with two or more main labels the chosen label is a candidate of
\* minimum cost among those with a qualifying item; for label "xa" with 5
\* items of 9 words (cost 0.4) against label "wn" with 3 items of 20 words
\* (cost 1.818 = 363600 / 200000) it is "xa".
C3_MinimumCostLabel ==
  \A k \in 1..Len(calls) :
     LET entry == calls[k].entry
         best == calls[k].result.best_label
         cost == [l \in MainLabels(entry) |-> LabelCost(entry, l)]
         candidates == {l \in MainLabels(entry) : cost[l].den > 0}
     IN /\ (Cardinality(MainLabels(entry)) >= 2 /\ candidates # {})
             => /\ best \in candidates
                /\ \A l \in candidates :
                      cost[best].num * cost[l].den <= cost[l].num * cost[best].den
        /\ (Len(entry.item) = 8 /\ entry.item = ScenarioItems("xa", "wn"))
             => /\ cost["xa"] = [num |-> 400000, den |-> 5]
                /\ cost["wn"] = [num |-> 1090800, den |-> 3]
                /\ best = "xa"

\* C3 witness: the two-label scenario was ranked and "xa" was chosen.
C3_Witness ==
  \E k \in 1..Len(calls) :
     /\ calls[k].entry.item = ScenarioItems("xa", "wn")
     /\ calls[k].result.best_label = "xa"

\* The entries under the keys of the index, and those among them that
\* record the inflection in one of their inflection attributes.
IndexedEntries ==
  UNION {Range(EntriesOf(input_dbm, keys[k])) : k \in 1..Len(keys)}

Recorders(infl) ==
  {e \in IndexedEntries :
     \E a \in Range(InflAttrs) : infl \in Range(SplitInflections(InflValue(e, a.name)))}

\* C4: an inflection is attached only to the entry of the word the global
\* map attributes it to, a word of the highest probability among the
\* entries under the index keys that record it; and when the first entry is
\* written the map holds every inflection those entries record.
C4_InflectionOwner ==
  out # <<>> =>
    /\ \A e \in IndexedEntries : \A a \in Range(InflAttrs) :
          Range(SplitInflections(InflValue(e, a.name))) \subseteq DOMAIN inflections
    /\ \A k \in 1..Len(out) : \A f \in Range(out[k].forms) :
          /\ inflections[f.infl] = out[k].word
          /\ \E e \in Recorders(f.infl) :
                /\ e.word = out[k].word
                /\ \A e2 \in Recorders(f.infl) : e2.probability <= e.probability

\* C4 witness: "ran" is recorded at 0.001 under "ran2" and at 0.01 under
\* "run"; "ran2", first in key order, was written without it and "run" with it.
C4_Witness ==
  /\ pc = "done"
  /\ \E e \in IndexedEntries : e.word = s_ran2 /\ e.probability = 10000 /\ e.infl = PastRan
  /\ \E e \in IndexedEntries : e.word = s_run /\ e.probability = 100000 /\ e.infl = PastRan
  /\ \E i, j \in 1..Len(out) :
        /\ i < j
        /\ out[i].word = s_ran2 /\ out[i].forms = <<>>
        /\ out[j].word = s_run
        /\ \E f \in Range(out[j].forms) : f.infl = s_ran

\* The entry i of the parent is below the threshold: 0.5 for a capitalized
\* word, 0.25 otherwise.
BelowThreshold(entries, i) ==
  /\ entries[i].share # NoShare
  /\ entries[i].share < (IF HasChar(entries[i].word, Upper) THEN 500 ELSE 250)

\* C5: the glosses of a parent come from entries before the first entry
\* whose share is below the threshold; with shares 0.6, 0.3, 0.1 and the
\* threshold 0.5 only the first entry yields a gloss.
C5_ScanStopsAtFirstLowShare ==
  \A k \in 1..Len(calls) :
     LET entries == EntriesOf(input_dbm, calls[k].parent)
         glosses == calls[k].result.glosses
     IN /\ \A g \in Range(glosses) :
              \E i \in 1..Len(entries) :
                 /\ entries[i].word = g.word
                 /\ \A j \in 1..i : ~BelowThreshold(entries, j)
        /\ ( /\ Len(entries) = 3
             /\ <<entries[1].share, entries[2].share, entries[3].share>> = <<600, 300, 100>>
             /\ \A i \in 1..3 : HasChar(entries[i].word, Upper)
             /\ entries[1].translation # <<>> )
           => (Len(glosses) = 1 /\ glosses[1].word = entries[1].word)

\* C5 witness: the scan of the shares 0.6, 0.3, 0.1 of capitalized words,
\* each with a translation, gave the one gloss of the first.
C5_Witness ==
  \E k \in 1..Len(calls) :
     LET entries == EntriesOf(input_dbm, calls[k].parent)
     IN /\ Len(entries) = 3
        /\ <<entries[1].share, entries[2].share, entries[3].share>> = <<600, 300, 100>>
        /\ \A i \in 1..3 : HasChar(entries[i].word, Upper) /\ entries[i].translation # <<>>
        /\ Len(calls[k].result.glosses) = 1

\* C6: rendering an entry whose item list is empty, whose parent key has no
\* record, or whose parent has an entry without items, does not raise.
C6_SoftSkipsNeverRaise ==
  \A k \in 1..Len(calls) :
     LET e == calls[k].entry
     IN ( \/ e.item = <<>>
          \/ \E p \in Range(e.parent) :
                \/ p \notin DOMAIN input_dbm
                \/ \E pe \in Range(EntriesOf(input_dbm, p)) : pe.item = <<>> )
        => ~calls[k].result.raised

\* C7: every entry that reaches MakeMainEntry, and every entry written, is
\* one IsGoodEntry admitted.
C7_OnlyAdmittedRendered ==
  /\ \A k \in 1..Len(calls) : IsGoodEntry(calls[k].entry, input_dbm, keywords, cfg).admit
  /\ \A k \in 1..Len(out) : out[k].word \in DOMAIN words

\* C8: two runs on the same entry and configuration choose the same label.
C8_SameLabelOnRerun ==
  Len(calls) = 2 => calls[1].result.best_label = calls[2].result.best_label

\* C9: a word with a space that is no keyword, has no trustable label and a
\* probability below sufficient_prob is admitted only by the phrasal verb,
\* translation or parent exception; "foo bar" with probability 0 and the
\* single label "xx" is rejected when the thresholds are positive.
C9_MultiTokenRejected ==
  \A k \in 1..Len(calls) :
     LET e == calls[k].entry
         r == calls[k].result
     IN /\ ( /\ HasChar(e.word, {" "})
             /\ e.word \notin keywords
             /\ EntryLabels(e) \cap trustable_labels = {}
             /\ ProbOf(e) < cfg.sufficient_prob
             /\ r.admit )
           => \/ IsPhrasalVerb(e, keywords)
              \/ HasGoodTranslation(e)
              \/ ParentRule(e.parent, e.word, input_dbm) = "admit"
        /\ ( /\ e.word = <<"f", "o", "o", " ", "b", "a", "r">>
             /\ ProbOf(e) = 0
             /\ EntryLabels(e) = {"xx"}
             /\ cfg.min_prob_normal > 0 /\ cfg.min_prob_capital > 0
             /\ cfg.min_prob_multi > 0 /\ cfg.sufficient_prob > 0 )
           => ~r.admit

\* C9 witness: "foo bar" with probability 0 and the single label "xx" was
\* rejected, although it has translations and a verb item.
C9_Witness ==
  \E k \in 1..Len(calls) :
     /\ calls[k].entry.word = <<"f", "o", "o", " ", "b", "a", "r">>
     /\ calls[k].entry.probability = 0
     /\ EntryLabels(calls[k].entry) = {"xx"}
     /\ HasGoodTranslation(calls[k].entry)
     /\ ~calls[k].result.admit

\* C10: the items of the chosen label come first; supplementary items
\* stand in for them only when no item has the chosen label; translation
\* items are chosen only when there are neither; and an entry with none of
\* the three is dropped: the call returns, nothing is written and the
\* totals are unchanged.
C10_FallbackPriority ==
  \A k \in 1..Len(calls) :
     LET e == calls[k].entry
         r == calls[k].result
         prim == PrimaryItems(e, r.best_label)
         sub == SubItems(e, r.best_label)
         tran == TranItems(e)
         first == Min(Len(prim), IF cfg.shrink THEN 8 ELSE 10)
     IN /\ prim # <<>> =>
             /\ r.rendered
             /\ Len(r.chosen) >= first
             /\ SubSeq(r.chosen, 1, first) = SubSeq(prim, 1, first)
             /\ \A j \in (first + 1)..Len(r.chosen) :
                   r.chosen[j] \in Range(sub) /\ r.chosen[j] \in r.aux
        /\ (prim = <<>> /\ sub # <<>>) =>
             /\ r.rendered
             /\ r.chosen[1] = sub[1]
             /\ \A i \in 1..Len(e.item) : e.item[i].label # r.best_label
        /\ (\E j \in 1..Len(r.chosen) : r.chosen[j] \in Range(tran)) =>
             (prim = <<>> /\ sub = <<>>)
        /\ (k = Len(calls) /\ pc = "returned" /\ prim = <<>> /\ sub = <<>> /\ tran = <<>>) =>
             /\ ~r.raised /\ ~r.rendered
             /\ out = <<>> /\ num_words = 0 /\ num_trans = 0 /\ num_items = 0

\* The first parent key of the entry without a record in the store, or 0.
FirstMissingParent(e) ==
  LET missing == {i \in 1..Len(e.parent) : e.parent[i] \notin DOMAIN input_dbm}
  IN IF missing = {} THEN 0 ELSE CHOOSE i \in missing : \A j \in missing : i <= j

\* Whether rules 9-12 would admit the entry.
LateRulesAdmit(e) ==
  /\ ~(HasRejectHead(e.word) /\ "we" \notin EntryLabels(e))
  /\ ~HasChar(e.word, {" "})
  /\ Cardinality(EntryLabels(e)) # 1

\* C11: an entry that reaches the parent exception with a parent key that
\* has no record is admitted when a parent listed before the first missing
\* one admits it, and is rejected otherwise, whatever the parents listed
\* after the missing one and rules 9-12 would decide.
C11_MissingParentRejects ==
  \A k \in 1..Len(calls) :
     LET e == calls[k].entry
         r == calls[k].result
         m == FirstMissingParent(e)
     IN (r.rule >= 8 /\ m > 0) =>
          /\ r.rule = 8
          /\ r.admit <=> \E j \in 1..(m - 1) : ParentAdmits(input_dbm[e.parent[j]], e.word)

\* C11 witness: an entry was rejected for its missing first parent although
\* its second parent and rules 9-12 would each have admitted it.
C11_Witness ==
  \E k \in 1..Len(calls) :
     LET e == calls[k].entry
     IN /\ calls[k].result = [admit |-> FALSE, rule |-> 8]
        /\ Len(e.parent) = 2
        /\ FirstMissingParent(e) = 1
        /\ e.parent[2] \in DOMAIN input_dbm
        /\ ParentAdmits(input_dbm[e.parent[2]], e.word)
        /\ LateRulesAdmit(e)

\* The shape of a phrasal verb: an all-lowercase word of two or more
\* tokens, the first a keyword and the others particles.
PhrasalVerbShape(entry) ==
  /\ Len(entry.word) >= 1 /\ AllChars(entry.word, Lower \cup {" "})
  /\ LET tokens == Split(entry.word, " ")
     IN /\ Len(tokens) >= 2
        /\ tokens[1] \in keywords
        /\ \A i \in 2..Len(tokens) : tokens[i] \in PARTICLES

\* C12: an entry that reaches rule 6 is admitted whenever its word is
\* all-lowercase with two or more space-separated tokens, its head token is
\* a keyword and every trailing token is a particle, whatever the parts of
\* speech of its items.
C12_PhrasalVerbAdmitted ==
  \A k \in 1..Len(calls) :
     (calls[k].result.rule >= 6 /\ PhrasalVerbShape(calls[k].entry))
       => calls[k].result.admit

\* C16: for a word with an uppercase letter that rules 1-3 leave undecided
\* the threshold is the value of --min_prob_capital, and for a word with a
\* space the value of --min_prob_multi: an entry below it is rejected.
C16_FlagsSetOwnThreshold ==
  \A k \in 1..Len(calls) :
     LET e == calls[k].entry
         r == calls[k].result
     IN /\ ( /\ r.rule > 3 /\ HasChar(e.word, Upper)
             /\ ProbOf(e) < FlagOr(cfg.args.min_prob_capital, DefaultMinProbCapital) )
           => ~r.admit
        /\ ( /\ r.rule > 3 /\ HasChar(e.word, {" "})
             /\ ProbOf(e) < FlagOr(cfg.args.min_prob_multi, DefaultMinProbMulti) )
           => ~r.admit

\* The parts of speech of the chosen items of the call c, of its
\* supplementary items and of its items of a supplement label.
ChosenOrSupplementaryPoses(c) ==
  {c.entry.item[i].pos :
     i \in Range(c.result.chosen) \cup Range(SubItems(c.entry, c.result.best_label))
           \cup {j \in 1..Len(c.entry.item) : c.entry.item[j].label \in supplement_labels}}

\* C13: every inflection form attached to a rendered entry belongs to a
\* part of speech of one of the entry's chosen or supplementary items.
C13_InflectionPosShown ==
  \A k \in RenderedCalls :
     \A f \in 1..Len(calls[k].result.forms) :
        calls[k].result.forms[f].pos \in ChosenOrSupplementaryPoses(calls[k])

\* C14: for an entry with at least one item the chosen label is the label
\* of one of its items: one of the main labels when there are two or more,
\* the main label when there is one, the label of the first item when there
\* is none; and only such a label has its adoption counter incremented.
C14_ChosenLabelOfSomeItem ==
  /\ \A k \in 1..Len(calls) :
        LET e == calls[k].entry
            best == calls[k].result.best_label
            main_labels == MainLabels(e)
        IN Len(e.item) >= 1 =>
             /\ best \in {e.item[i].label : i \in 1..Len(e.item)}
             /\ Cardinality(main_labels) >= 1 => best \in main_labels
             /\ main_labels = {} => best = e.item[1].label
  /\ (pc = "returned" /\ Len(arg.item) >= 1) =>
        \A l \in AllLabels :
           label_counters[l] > 0 => l \in {arg.item[i].label : i \in 1..Len(arg.item)}

\* C15: in the chosen list of a rendered entry no item occurs twice, and
\* the items with the auxiliary mark are exactly those appended after the
\* items of the first loop of MergeShownItems.
C15_NoRepeatAuxExact ==
  \A k \in RenderedCalls :
     LET chosen == calls[k].result.chosen
     IN /\ \A i, j \in 1..Len(chosen) : i # j => chosen[i] # chosen[j]
        /\ \A i \in 1..Len(chosen) :
              chosen[i] \in calls[k].result.aux <=> i > FirstLoopCount(calls[k])

====
